---- MODULE Spec2Model ----
(***************************************************************************)
(* Model of the BoxBreathing application (src/App.tsx, src/types.ts).      *)
(*                                                                         *)
(* The App component is a set of React state cells and refs, three         *)
(* browser timers (plus the unnamed 100 ms timeout of startSession), the   *)
(* localStorage entries 'breathing_stats' and 'theme', and the speech      *)
(* requests in flight.  One step of the model is one callback of the       *)
(* event loop (a click handler, a timer callback, the resolution of a      *)
(* speech request) together with the render it causes and the effects of   *)
(* that render: a handler always runs with the closures of the latest      *)
(* render, and a state updater is applied once.  Time is counted in units  *)
(* of 100 ms and jumps from one timer deadline to the next; user input     *)
(* arrives at these instants.  Timers due at the same instant fire in any  *)
(* order.                                                                  *)
(***************************************************************************)
EXTENDS Integers, FiniteSets, Sequences, TLC

\* ------------------------------------------------------------------ bounds
MaxElapsed == 17        \* seconds of a session that Spec follows
MaxAdvances == 6        \* phase advances Spec follows after a reset to Idle
MaxStarts == 2          \* sessions started in one behaviour of Spec
MaxPending == 1         \* speech requests tracked in flight
MaxElapsedLong == 301   \* seconds of a session that SpecLong follows
MaxAdvancesLong == 152  \* phase advances SpecLong follows after a reset
MaxStartsLong == 2      \* sessions started in one behaviour of SpecLong
MaxElapsedLive == 300   \* seconds of a session that SpecLive follows
MaxAdvancesLive == 76   \* phase advances SpecLive follows after a reset
MaxStartsLive == 1      \* sessions started in one behaviour of SpecLive

\* --------------------------------------------------------------- constants
TimeUnitMs == 100
PHASE_DURATION_S == 4
SecondsPerMinute == 60
InitialDelay == 100 \div TimeUnitMs
SecondPeriod == 1000 \div TimeUnitMs
PhasePeriod == (PHASE_DURATION_S * 1000) \div TimeUnitMs
DurationChoices == {5, 10, 15}

\* src/types.ts: enum Phase
Phase == {"idle", "inhale", "holdIn", "exhale", "holdOut"}

ZeroStats == [sessions |-> 0, totalCycles |-> 0]

\* localStorage holds strings: no entry, a text that is not JSON, or the
\* text JSON.stringify produced for a Stats object.
Absent == [text |-> "absent"]
Garbage == [text |-> "garbage"]

\* a serialisation that writes only the sessions field
JSONStringify_SessionsOnly(s) ==
  [text |-> "object", sessions |-> s.sessions, totalCycles |-> 0]

JSONStringify(s) ==
  [text |-> "object", sessions |-> s.sessions, totalCycles |-> s.totalCycles]

JSONParseThrows(item) == item.text = "garbage"

JSONParse(item) ==
  [sessions |-> item.sessions, totalCycles |-> item.totalCycles]

VARIABLES
  \* React state (useState)
  phase, isRunning, duration, elapsedTime, cycleCount, phaseCountdown,
  language, isMuted, theme, stats, isGuided,
  \* refs (useRef)
  phaseTimerRef, sessionTimerRef, countdownTimerRef,
  isMutedRef, isGuidedRef, audioCtx,
  \* host environment
  timers,      \* armed timers: [kind, sid, due]
  storage,     \* localStorage: [stats, theme]
  pending,     \* speech requests in flight
  app,         \* "loading" | "ready" | "crashed"
  \* what the last step did to the audio output
  cue,         \* outcome of the cue effect in the last step
  played,      \* playback started in the last step
  \* history
  started,     \* number of sessions started so far
  advances,    \* advancePhase calls since phase was last set to Idle
  commits,     \* Stats commits since the last start
  endedBy,     \* how the last session ended
  stopAt,      \* elapsedTime seen by the last stopSession
  lastCommit,  \* the Stats value of the last commit, over all page loads
  ignoredStart \* the last step was a request to start while running

compVars == <<phase, isRunning, duration, elapsedTime, cycleCount,
              phaseCountdown, language, isMuted, theme, stats, isGuided,
              phaseTimerRef, sessionTimerRef, countdownTimerRef,
              isMutedRef, isGuidedRef, audioCtx, timers, storage, pending,
              cue, played, advances, commits, endedBy, stopAt, lastCommit>>

vars == <<compVars, app, started, ignoredStart>>

\* The component as one record: handlers are operators on it.
Cur ==
  [phase |-> phase, isRunning |-> isRunning, duration |-> duration,
   elapsedTime |-> elapsedTime, cycleCount |-> cycleCount,
   phaseCountdown |-> phaseCountdown, language |-> language,
   isMuted |-> isMuted, theme |-> theme, stats |-> stats,
   isGuided |-> isGuided, phaseTimerRef |-> phaseTimerRef,
   sessionTimerRef |-> sessionTimerRef,
   countdownTimerRef |-> countdownTimerRef, isMutedRef |-> isMutedRef,
   isGuidedRef |-> isGuidedRef, audioCtx |-> audioCtx, timers |-> timers,
   storage |-> storage, pending |-> pending, cue |-> "none",
   played |-> "none", advances |-> advances, commits |-> commits,
   endedBy |-> endedBy, stopAt |-> stopAt, lastCommit |-> lastCommit]

Install(r) ==
  /\ phase' = r.phase
  /\ isRunning' = r.isRunning
  /\ duration' = r.duration
  /\ elapsedTime' = r.elapsedTime
  /\ cycleCount' = r.cycleCount
  /\ phaseCountdown' = r.phaseCountdown
  /\ language' = r.language
  /\ isMuted' = r.isMuted
  /\ theme' = r.theme
  /\ stats' = r.stats
  /\ isGuided' = r.isGuided
  /\ phaseTimerRef' = r.phaseTimerRef
  /\ sessionTimerRef' = r.sessionTimerRef
  /\ countdownTimerRef' = r.countdownTimerRef
  /\ isMutedRef' = r.isMutedRef
  /\ isGuidedRef' = r.isGuidedRef
  /\ audioCtx' = r.audioCtx
  /\ timers' = r.timers
  /\ storage' = r.storage
  /\ pending' = r.pending
  /\ cue' = r.cue
  /\ played' = r.played
  /\ advances' = r.advances
  /\ commits' = r.commits
  /\ endedBy' = r.endedBy
  /\ stopAt' = r.stopAt
  /\ lastCommit' = r.lastCommit

\* The component is in state r.
Holds(r) ==
  /\ phase = r.phase
  /\ isRunning = r.isRunning
  /\ duration = r.duration
  /\ elapsedTime = r.elapsedTime
  /\ cycleCount = r.cycleCount
  /\ phaseCountdown = r.phaseCountdown
  /\ language = r.language
  /\ isMuted = r.isMuted
  /\ theme = r.theme
  /\ stats = r.stats
  /\ isGuided = r.isGuided
  /\ phaseTimerRef = r.phaseTimerRef
  /\ sessionTimerRef = r.sessionTimerRef
  /\ countdownTimerRef = r.countdownTimerRef
  /\ isMutedRef = r.isMutedRef
  /\ isGuidedRef = r.isGuidedRef
  /\ audioCtx = r.audioCtx
  /\ timers = r.timers
  /\ storage = r.storage
  /\ pending = r.pending
  /\ cue = r.cue
  /\ played = r.played
  /\ advances = r.advances
  /\ commits = r.commits
  /\ endedBy = r.endedBy
  /\ stopAt = r.stopAt
  /\ lastCommit = r.lastCommit

\* no commit has happened yet
NoCommit == [sessions |-> -1, totalCycles |-> -1]

\* useState initial values and fresh refs (App.tsx 133-165)
InitialComponent(store) ==
  [phase |-> "idle", isRunning |-> FALSE, duration |-> 0,
   elapsedTime |-> 0, cycleCount |-> 0,
   phaseCountdown |-> PHASE_DURATION_S, language |-> "en",
   isMuted |-> FALSE, theme |-> "light", stats |-> ZeroStats,
   isGuided |-> FALSE, phaseTimerRef |-> 0, sessionTimerRef |-> 0,
   countdownTimerRef |-> 0, isMutedRef |-> FALSE, isGuidedRef |-> FALSE,
   audioCtx |-> FALSE, timers |-> {}, storage |-> store, pending |-> 0,
   cue |-> "none", played |-> "none", advances |-> 0, commits |-> 0,
   endedBy |-> "none", stopAt |-> -1, lastCommit |-> NoCommit]

\* ------------------------------------------------------------- the timers
Timer(k, s, d) == [kind |-> k, sid |-> s, due |-> d]

\* clearInterval(ref.current) when ref.current !== undefined; 0 models an
\* undefined ref, a positive value the handle of the interval armed by the
\* session with that ordinal.
ClearInterval(ts, k, ref) ==
  IF ref # 0 THEN {t \in ts : ~(t.kind = k /\ t.sid = ref)} ELSE ts

\* ---------------------------------------------------------- the handlers
NextPhase(p) ==
  CASE p = "idle" -> "inhale"
    [] p = "inhale" -> "holdIn"
    [] p = "holdIn" -> "exhale"
    [] p = "exhale" -> "holdOut"
    [] p = "holdOut" -> "inhale"
    [] OTHER -> "inhale"

\* advancePhase counting the cycle one phase early
advancePhase_CountOnExhale(r) ==
  [r EXCEPT !.phase = NextPhase(r.phase),
            !.cycleCount = IF r.phase = "exhale" THEN @ + 1 ELSE @,
            !.advances = @ + 1]

advancePhase(r) ==
  [r EXCEPT !.phase = NextPhase(r.phase),
            !.cycleCount = IF r.phase = "holdOut" THEN @ + 1 ELSE @,
            !.advances = @ + 1]

\* the Stats update kept in memory only
CommitStats_NoWrite(r) ==
  LET newStats == [sessions |-> r.stats.sessions + 1,
                   totalCycles |-> r.stats.totalCycles + r.cycleCount]
  IN [r EXCEPT !.stats = newStats,
               !.commits = @ + 1,
               !.lastCommit = newStats]

\* the Stats update adding one cycle per session
CommitStats_OneCycle(r) ==
  LET newStats == [sessions |-> r.stats.sessions + 1,
                   totalCycles |-> r.stats.totalCycles + 1]
  IN [r EXCEPT !.stats = newStats,
               !.storage.stats = JSONStringify(newStats),
               !.commits = @ + 1,
               !.lastCommit = newStats]

CommitStats(r) ==
  LET newStats == [sessions |-> r.stats.sessions + 1,
                   totalCycles |-> r.stats.totalCycles + r.cycleCount]
  IN [r EXCEPT !.stats = newStats,
               !.storage.stats = JSONStringify(newStats),
               !.commits = @ + 1,
               !.lastCommit = newStats]

\* stopSession up to the clearing of the three intervals (246-251)
StopAndClear(r) ==
  [r EXCEPT !.isRunning = FALSE,
            !.phase = "idle",
            !.timers = ClearInterval(
                         ClearInterval(
                           ClearInterval(@, "phase", r.phaseTimerRef),
                           "session", r.sessionTimerRef),
                         "countdown", r.countdownTimerRef),
            !.advances = 0,
            !.stopAt = r.elapsedTime]

\* stopSession without the reset of elapsedTime
stopSession_KeepElapsed(r) ==
  LET cleared == StopAndClear(r)
      counted == IF r.elapsedTime > 0 THEN CommitStats(cleared) ELSE cleared
  IN [counted EXCEPT !.duration = 0, !.cycleCount = 0]

\* stopSession committing also at elapsedTime = 0
stopSession_CommitAtZero(r) ==
  LET cleared == StopAndClear(r)
      counted == IF r.elapsedTime >= 0 THEN CommitStats(cleared) ELSE cleared
  IN [counted EXCEPT !.elapsedTime = 0, !.duration = 0, !.cycleCount = 0]

\* The closure of stopSession holds elapsedTime and cycleCount of the render
\* it was created in (useCallback deps, 266); every caller uses the closure
\* of the latest render, so these are the current values.
stopSession(r) ==
  LET cleared == StopAndClear(r)
      counted == IF r.elapsedTime > 0 THEN CommitStats(cleared) ELSE cleared
  IN [counted EXCEPT !.elapsedTime = 0, !.duration = 0, !.cycleCount = 0]

\* a start that leaves the countdown where the previous session left it
startSession_KeepsCountdown(r, mins, sid) ==
  [r EXCEPT !.duration = mins * SecondsPerMinute,
            !.elapsedTime = 0,
            !.cycleCount = 0,
            !.isRunning = TRUE,
            !.phase = "idle",
            !.timers = @ \cup {Timer("timeout", sid, InitialDelay),
                               Timer("session", sid, SecondPeriod),
                               Timer("countdown", sid, SecondPeriod)},
            !.sessionTimerRef = sid,
            !.countdownTimerRef = sid,
            !.advances = 0,
            !.commits = 0,
            !.endedBy = "none",
            !.stopAt = -1]

startSession(r, mins, sid) ==
  [r EXCEPT !.duration = mins * SecondsPerMinute,
            !.elapsedTime = 0,
            !.cycleCount = 0,
            !.isRunning = TRUE,
            !.phase = "idle",
            !.phaseCountdown = PHASE_DURATION_S,
            !.timers = @ \cup {Timer("timeout", sid, InitialDelay),
                               Timer("session", sid, SecondPeriod),
                               Timer("countdown", sid, SecondPeriod)},
            !.sessionTimerRef = sid,
            !.countdownTimerRef = sid,
            !.advances = 0,
            !.commits = 0,
            !.endedBy = "none",
            !.stopAt = -1]

\* ------------------------------------------------------------ the effects
\* isMutedRef / isGuidedRef effects (157-165)
SyncRefs(r) == [r EXCEPT !.isMutedRef = r.isMuted, !.isGuidedRef = r.isGuided]

\* a tone that does not look at the mute flag
playDingSound_IgnoresMute(r) == [r EXCEPT !.cue = "tone", !.played = "tone"]

\* audioRef.current is set by the mount effect (332) and never cleared.
playDingSound(r) ==
  IF ~r.isMutedRef
  THEN [r EXCEPT !.cue = "tone", !.played = "tone"]
  ELSE [r EXCEPT !.cue = "silent"]

\* Up to the await (198-211); the rest is SpeechResolves.  Requests in
\* flight beyond MaxPending are not tracked.
generateAndPlaySpeech(r) ==
  IF r.isMutedRef \/ ~r.isGuidedRef THEN [r EXCEPT !.cue = "silent"]
  ELSE IF ~r.audioCtx THEN [r EXCEPT !.cue = "noContext"]
  ELSE [r EXCEPT !.cue = "speech",
                 !.pending = IF @ < MaxPending THEN @ + 1 ELSE @]

CueDepsChanged(old, new) ==
  \/ old.phase # new.phase
  \/ old.isRunning # new.isRunning
  \/ old.isGuided # new.isGuided
  \/ old.language # new.language

\* The guide texts of TRANSLATIONS are taken to be non-empty.
CueEffect(old, new) ==
  IF ~CueDepsChanged(old, new) THEN new
  ELSE IF ~new.isRunning \/ new.phase = "idle" THEN new
  ELSE IF new.isGuided THEN generateAndPlaySpeech(new)
  ELSE playDingSound(new)

AutoStopDepsChanged(old, new) ==
  \/ old.elapsedTime # new.elapsedTime
  \/ old.duration # new.duration
  \/ old.isRunning # new.isRunning
  \/ old.cycleCount # new.cycleCount

\* the auto-stop effect without elapsedTime among its dependencies
AutoStopEffect_StaleElapsed(old, new) ==
  IF /\ \/ old.duration # new.duration
        \/ old.isRunning # new.isRunning
        \/ old.cycleCount # new.cycleCount
     /\ new.isRunning
     /\ new.elapsedTime >= new.duration
  THEN [stopSession(new) EXCEPT !.endedBy = "auto"]
  ELSE new

\* the auto-stop comparing seconds with a duration taken as minutes
AutoStopEffect_WrongUnit(old, new) ==
  IF /\ AutoStopDepsChanged(old, new)
     /\ new.isRunning
     /\ new.elapsedTime >= new.duration * SecondsPerMinute
  THEN [stopSession(new) EXCEPT !.endedBy = "auto"]
  ELSE new

AutoStopEffect(old, new) ==
  IF /\ AutoStopDepsChanged(old, new)
     /\ new.isRunning
     /\ new.elapsedTime >= new.duration
  THEN [stopSession(new) EXCEPT !.endedBy = "auto"]
  ELSE new

\* The render after a handler, with its effects in declaration order; the
\* state set by the auto-stop effect is rendered again.
RECURSIVE Render(_, _)
Render(old, new) ==
  LET synced == SyncRefs(new)
      stopped == AutoStopEffect(old, synced)
      cued == CueEffect(old, synced)
      after == [stopped EXCEPT !.cue = cued.cue, !.played = cued.played,
                               !.pending = cued.pending]
  IN IF stopped = synced THEN after ELSE Render(synced, after)

\* ------------------------------------------------------------------- Init
Init ==
  /\ \E item \in {Absent, Garbage} :
       Holds(InitialComponent([stats |-> item, theme |-> "absent"]))
  /\ app = "loading"
  /\ started = 0
  /\ ignoredStart = FALSE

\* ---------------------------------------------------------------- actions
\* The mount effect (319-341) and the theme effect (343-350).
Mount ==
  /\ app = "loading"
  /\ ignoredStart' = FALSE
  /\ UNCHANGED started
  /\ IF storage.stats # Absent /\ JSONParseThrows(storage.stats)
     THEN /\ app' = "crashed"
          /\ Install(Cur)
     ELSE /\ app' = "ready"
          /\ \E prefersDark \in BOOLEAN, ctxOk \in BOOLEAN :
               LET loaded == IF storage.stats # Absent
                             THEN JSONParse(storage.stats) ELSE stats
                   th == IF storage.theme # "absent" THEN storage.theme
                         ELSE IF prefersDark THEN "dark" ELSE "light"
                   r == [Cur EXCEPT !.stats = loaded, !.theme = th,
                                    !.storage.theme = th,
                                    !.audioCtx = ctxOk]
               IN Install(Render(Cur, r))

\* the duration buttons rendered also while running
ClickDuration_AlwaysRendered(mins, maxStarts) ==
  /\ app = "ready"
  /\ UNCHANGED app
  /\ started < maxStarts
  /\ ignoredStart' = isRunning
  /\ started' = started + 1
  /\ Install(Render(Cur, startSession(Cur, mins, started + 1)))

\* A duration button of DurationSelector, rendered only when not running
\* (397-404).
ClickDuration(mins, maxStarts) ==
  /\ app = "ready"
  /\ UNCHANGED app
  /\ IF isRunning
     THEN /\ ignoredStart' = TRUE
          /\ started' = started
          /\ Install(Cur)
     ELSE /\ started < maxStarts
          /\ ignoredStart' = FALSE
          /\ started' = started + 1
          /\ Install(Render(Cur, startSession(Cur, mins, started + 1)))

\* The stop button, rendered only when running (408-412).
ClickStop ==
  /\ app = "ready"
  /\ isRunning
  /\ ignoredStart' = FALSE
  /\ UNCHANGED <<app, started>>
  /\ Install(Render(Cur, [stopSession(Cur) EXCEPT !.endedBy = "manual"]))

Toggle(r) ==
  /\ app = "ready"
  /\ ignoredStart' = FALSE
  /\ UNCHANGED <<app, started>>
  /\ Install(Render(Cur, r))

toggleTheme ==
  LET th == IF theme = "light" THEN "dark" ELSE "light"
  IN Toggle([Cur EXCEPT !.theme = th, !.storage.theme = th])

toggleLanguage ==
  Toggle([Cur EXCEPT !.language = IF language = "en" THEN "ru" ELSE "en"])

toggleMute == Toggle([Cur EXCEPT !.isMuted = ~isMuted])

toggleGuided == Toggle([Cur EXCEPT !.isGuided = ~isGuided])

\* Timer callbacks.
Rearm(ts, t, period) == (ts \ {t}) \cup {[t EXCEPT !.due = period]}

Fire(r) ==
  /\ app = "ready"
  /\ ignoredStart' = FALSE
  /\ UNCHANGED <<app, started>>
  /\ Install(Render(Cur, r))

\* setTimeout callback of startSession (305-308)
FireTimeout ==
  \E t \in timers :
    /\ t.kind = "timeout" /\ t.due = 0
    /\ Fire([advancePhase(Cur) EXCEPT
               !.timers = (@ \ {t}) \cup {Timer("phase", t.sid, PhasePeriod)},
               !.phaseTimerRef = t.sid])

\* phase interval (307)
FirePhase ==
  \E t \in timers :
    /\ t.kind = "phase" /\ t.due = 0
    /\ Fire([advancePhase(Cur) EXCEPT !.timers = Rearm(@, t, PhasePeriod)])

\* elapsed-second interval (310-312)
FireSession ==
  \E t \in timers :
    /\ t.kind = "session" /\ t.due = 0
    /\ Fire([Cur EXCEPT !.elapsedTime = @ + 1,
                        !.timers = Rearm(@, t, SecondPeriod)])

\* a countdown that runs down to zero before it wraps
FireCountdown_ToZero ==
  \E t \in timers :
    /\ t.kind = "countdown" /\ t.due = 0
    /\ Fire([Cur EXCEPT !.phaseCountdown =
                          IF @ > 0 THEN @ - 1 ELSE PHASE_DURATION_S,
                        !.timers = Rearm(@, t, SecondPeriod)])

\* countdown interval (314-316)
FireCountdown ==
  \E t \in timers :
    /\ t.kind = "countdown" /\ t.due = 0
    /\ Fire([Cur EXCEPT !.phaseCountdown =
                          IF @ > 1 THEN @ - 1 ELSE PHASE_DURATION_S,
                        !.timers = Rearm(@, t, SecondPeriod)])

\* a failed speech request ends the session
SpeechResolves_FailureStops ==
  /\ app = "ready"
  /\ pending > 0
  /\ ignoredStart' = FALSE
  /\ UNCHANGED <<app, started>>
  /\ \E audio \in BOOLEAN :
       Install([(IF audio THEN Cur ELSE stopSession(Cur)) EXCEPT
                  !.pending = @ - 1,
                  !.played = IF audio THEN "speech" ELSE "none"])

\* The speech request of generateAndPlaySpeech completes (205-227): with
\* audio, which is started, or without audio or with an error.
SpeechResolves ==
  /\ app = "ready"
  /\ pending > 0
  /\ ignoredStart' = FALSE
  /\ UNCHANGED <<app, started>>
  /\ \E audio \in BOOLEAN :
       Install([Cur EXCEPT !.pending = @ - 1,
                           !.played = IF audio THEN "speech" ELSE "none"])

\* Time runs to the next timer deadline.
MinDue(ts) == CHOOSE d \in {t.due : t \in ts} : \A t \in ts : d <= t.due

TimePasses(maxElapsed, maxAdvances) ==
  /\ app = "ready"
  /\ timers # {}
  /\ \A t \in timers : t.due > 0
  /\ elapsedTime < maxElapsed
  /\ advances < maxAdvances
  /\ ignoredStart' = FALSE
  /\ UNCHANGED <<app, started>>
  /\ Install([Cur EXCEPT !.timers =
                {[t EXCEPT !.due = @ - MinDue(timers)] : t \in timers}])

\* The page is loaded again: a new component, the same localStorage.
Reload ==
  /\ app # "loading"
  /\ app' = "loading"
  /\ ignoredStart' = FALSE
  /\ UNCHANGED started
  /\ Install([InitialComponent(storage) EXCEPT !.lastCommit = lastCommit])

\* Spec follows the first seconds of sessions, where the three durations
\* behave alike: it starts the shortest one.
ShortestChoice == {m \in DurationChoices : \A n \in DurationChoices : m <= n}

Next ==
  \/ Mount
  \/ \E m \in ShortestChoice : ClickDuration(m, MaxStarts)
  \/ ClickStop
  \/ toggleTheme
  \/ toggleLanguage
  \/ toggleMute
  \/ toggleGuided
  \/ FireTimeout
  \/ FirePhase
  \/ FireSession
  \/ FireCountdown
  \/ SpeechResolves
  \/ TimePasses(MaxElapsed, MaxAdvances)
  \/ Reload

Spec == Init /\ [][Next]_vars

\* Whole sessions: the timers and the start control, and the stop control
\* used only before the first elapsed second.
ClickStopAtZero == elapsedTime = 0 /\ ClickStop

NextLong ==
  \/ Mount
  \/ \E m \in DurationChoices : ClickDuration(m, MaxStartsLong)
  \/ ClickStopAtZero
  \/ FireTimeout
  \/ FirePhase
  \/ FireSession
  \/ FireCountdown
  \/ TimePasses(MaxElapsedLong, MaxAdvancesLong)

SpecLong == Init /\ [][NextLong]_vars

\* The component after the mount effect (319-341) and the theme effect
\* (343-350) on a store without entries.
MountedComponent(prefersDark, ctxOk) ==
  LET c == InitialComponent([stats |-> Absent, theme |-> "absent"])
      th == IF prefersDark THEN "dark" ELSE "light"
  IN Render(c, [c EXCEPT !.theme = th, !.storage.theme = th,
                         !.audioCtx = ctxOk])

\* The page of a first visit, loaded, with or without an audio context.
InitLive ==
  /\ \E ctxOk \in BOOLEAN : Holds(MountedComponent(FALSE, ctxOk))
  /\ app = "ready"
  /\ started = 0
  /\ ignoredStart = FALSE

\* Sessions of the shortest duration left to end by themselves: the start
\* control and the timers, with the browser running every timer callback
\* that is due and time going on.
NextLive ==
  \/ \E m \in ShortestChoice : ClickDuration(m, MaxStartsLive)
  \/ FireTimeout
  \/ FirePhase
  \/ FireSession
  \/ FireCountdown
  \/ TimePasses(MaxElapsedLive, MaxAdvancesLive)

\* a timer callback that is due runs, and otherwise time goes on
Tick ==
  \/ FireTimeout
  \/ FirePhase
  \/ FireSession
  \/ FireCountdown
  \/ TimePasses(MaxElapsedLive, MaxAdvancesLive)

Fairness == WF_vars(Tick)

SpecLive == InitLive /\ [][NextLive]_vars /\ Fairness

TypeOK ==
  /\ phase \in Phase
  /\ isRunning \in BOOLEAN
  /\ phaseCountdown \in 1..PHASE_DURATION_S

\* ------------------------------------------------------------------ claims
PeriodicKinds == {"phase", "session", "countdown"}

\* The program's own state, without the audio outputs and the history.
ProgramState(r) ==
  <<r.phase, r.isRunning, r.duration, r.elapsedTime, r.cycleCount,
    r.phaseCountdown, r.language, r.isMuted, r.theme, r.stats, r.isGuided,
    r.phaseTimerRef, r.sessionTimerRef, r.countdownTimerRef, r.timers,
    r.storage, r.pending>>

\* C1: whenever no session is running (stop has returned, or nothing was
\* started), none of the three periodic triggers is armed.
C1_TriggersCancelledAfterStop ==
  ~isRunning => \A t \in timers : t.kind \notin PeriodicKinds

PhaseCycle == <<"inhale", "holdIn", "exhale", "holdOut">>

\* C2: after n advances from Idle the phase is the n-th of Inhale, HoldIn,
\* Exhale, HoldOut repeated, Idle is reached by no advance, and cycleCount
\* is floor((n-1)/4).
C2_PhaseSequence ==
  IF advances = 0
  THEN phase = "idle" /\ cycleCount = 0
  ELSE /\ phase = PhaseCycle[((advances - 1) % 4) + 1]
       /\ cycleCount = (advances - 1) \div 4

C2_Witness == advances = 13 /\ cycleCount = 3 /\ phase = "inhale"

\* C3: a session of 5 minutes that ended by itself was stopped at
\* elapsedTime = 300, committed exactly one Stats update, and no phase
\* advance has happened since.
C3_AutoStopIsFinal ==
  (~isRunning /\ endedBy = "auto") =>
     /\ stopAt = 5 * SecondsPerMinute
     /\ commits = 1
     /\ advances = 0
     /\ phase = "idle"

\* stopSession from the current state, and again after its render
StopOnce == Render(Cur, stopSession(Cur))
StopTwice == Render(StopOnce, stopSession(StopOnce))

\* C4: stopping twice in a row gives the state and the Stats of stopping
\* once, and the second stop commits nothing.
C4_StopIdempotent ==
  app = "ready" =>
     /\ ProgramState(StopTwice) = ProgramState(StopOnce)
     /\ StopTwice.commits = StopOnce.commits

C4_Witness ==
  /\ app = "ready" /\ isRunning /\ elapsedTime > 0 /\ cycleCount > 0
  /\ StopOnce.stats # stats
  /\ StopTwice.stats = StopOnce.stats

\* a step in which stopSession ends the running session
SessionStops == isRunning /\ ~isRunning'

\* C5: while the application runs, a step that stops a session with
\* elapsedTime > 0 adds 1 to sessions and the session's cycleCount to
\* totalCycles, in memory and in the store, and no other step (a toggle, a
\* timer, a start, a stop at elapsedTime = 0) changes Stats.
C5_StatsAdditive ==
  [][(app = "ready" /\ app' = "ready") =>
       IF SessionStops /\ stopAt' > 0
       THEN /\ stats' = [sessions |-> stats.sessions + 1,
                         totalCycles |-> stats.totalCycles + cycleCount]
            /\ storage'.stats = JSONStringify(stats')
            /\ commits' = 1
       ELSE stats' = stats /\ storage'.stats = storage.stats]_vars

C5_Witness ==
  /\ stats.sessions = 2 /\ stats.totalCycles >= 1
  /\ storage.stats = JSONStringify(stats)
  /\ isMuted /\ isGuided /\ language = "ru" /\ theme = "dark"

\* C6: a manual stop while elapsedTime = 0 leaves Stats unchanged in memory
\* and in the store.
C6_StopAtZeroKeepsStats ==
  [][(SessionStops /\ elapsedTime = 0 /\ endedBy' = "manual") =>
       (stats' = stats /\ storage' = storage)]_vars

C6_Witness ==
  /\ ~isRunning /\ endedBy = "manual" /\ stopAt = 0
  /\ stats.sessions = 1 /\ commits = 0

C8_NoPlaybackWhileMuted == isMuted => played = "none"

\* C9: the cue player is invoked in a step exactly when that step changes
\* the phase to a non-Idle phase while running.
C9_CueOncePerTransition ==
  [][(cue' # "none") <=>
       (isRunning' /\ phase' # phase /\ phase' # "idle")]_vars

\* C10: once the startup load has run on an absent or malformed Stats
\* entry, the application is up with zero Stats.
C10_LoadFallsBack ==
  (app # "loading" /\ storage.stats \in {Absent, Garbage}) =>
     (app = "ready" /\ stats = ZeroStats)

\* C11: the load done when the page starts returns exactly the Stats value
\* that the last commit wrote, whatever was committed and however the page
\* was left.
C11_CommitLoadRoundTrip ==
  [][(app = "loading" /\ app' = "ready" /\ lastCommit # NoCommit)
       => stats' = lastCommit]_vars

C11_Witness ==
  /\ app = "ready" /\ ~isRunning /\ started >= 1 /\ endedBy = "none"
  /\ lastCommit # NoCommit
  /\ lastCommit.totalCycles >= 1
  /\ stats = lastCommit

\* C12: once the startup load is done, the store holds the Stats value of
\* the last commit and memory holds the same value (with no commit ever,
\* the store has no entry and memory holds zeros); no step changes Stats in
\* memory without writing the same value, and sessions and totalCycles are
\* non-negative and never decrease.
C12_StoreMirrorsStats ==
  /\ [](app = "ready" =>
          /\ stats.sessions >= 0 /\ stats.totalCycles >= 0
          /\ IF lastCommit = NoCommit
             THEN storage.stats = Absent /\ stats = ZeroStats
             ELSE stats = lastCommit /\ storage.stats = JSONStringify(stats))
  /\ [][(app = "ready" /\ app' = "ready") =>
          /\ stats' # stats => storage'.stats = JSONStringify(stats')
          /\ stats'.sessions >= stats.sessions
          /\ stats'.totalCycles >= stats.totalCycles]_vars

C12_Witness ==
  /\ app = "ready" /\ ~isRunning /\ endedBy = "manual"
  /\ commits = 1
  /\ stats.sessions = 2
  /\ stats.totalCycles >= 2
  /\ storage.stats = JSONStringify(stats)

SessionStarts == ~isRunning /\ isRunning'

\* C13: a start from NotRunning leaves duration = minutes * 60, elapsedTime
\* 0, cycleCount 0, phase Idle, phaseCountdown = the phase duration and
\* running true, whatever the previous session left behind, and arms
\* exactly three triggers: the phase advance after the initial delay, the
\* elapsed second and the countdown second.
C13_StartResetsAndArms ==
  [][SessionStarts =>
       /\ duration' \in {m * SecondsPerMinute : m \in DurationChoices}
       /\ elapsedTime' = 0
       /\ cycleCount' = 0
       /\ phase' = "idle"
       /\ phaseCountdown' = PHASE_DURATION_S
       /\ timers \subseteq timers'
       /\ timers' \ timers = {Timer("timeout", started', InitialDelay),
                              Timer("session", started', SecondPeriod),
                              Timer("countdown", started', SecondPeriod)}
       /\ sessionTimerRef' = started'
       /\ countdownTimerRef' = started']_vars

\* a second session just started on the leftovers of the first one
C13_Witness ==
  /\ isRunning /\ started = 2 /\ elapsedTime = 0 /\ advances = 0
  /\ duration = 15 * SecondsPerMinute
  /\ phaseCountdown = PHASE_DURATION_S
  /\ Timer("timeout", 2, InitialDelay) \in timers
  /\ \E t \in timers : t.kind = "phase" /\ t.sid = 1

\* the countdown interval's callback has run in this step
CountdownFires ==
  \E t \in timers :
    /\ t.kind = "countdown" /\ t.due = 0
    /\ t \notin timers'
    /\ [t EXCEPT !.due = SecondPeriod] \in timers'

\* C14: phaseCountdown is always within 1 .. phase duration; each firing of
\* the countdown trigger takes it down by one, or from 1 back to the phase
\* duration (never to 0), so that a session shows 4, 3, 2, 1, 4, ...; nothing
\* else changes it but a start, which sets it to the phase duration.
C14_CountdownWraps ==
  /\ [](phaseCountdown \in 1..PHASE_DURATION_S)
  /\ [][/\ CountdownFires =>
              (phaseCountdown' = IF phaseCountdown > 1
                                 THEN phaseCountdown - 1
                                 ELSE PHASE_DURATION_S)
        /\ phaseCountdown' # phaseCountdown =>
              (\/ CountdownFires
               \/ SessionStarts /\ phaseCountdown' = PHASE_DURATION_S)]_vars

\* the fifth firing of a session: 4, 3, 2, 1, 4 and now 3
C14_Witness ==
  /\ isRunning /\ elapsedTime = 4 /\ phaseCountdown = 3
  /\ \E t \in timers : t.kind = "countdown" /\ t.due = SecondPeriod

\* C15: with the timers firing and nobody pressing stop, every started
\* session comes to an end by itself, and the state then is NotRunning
\* with phase Idle.
C15_SessionEnds ==
  isRunning ~> (~isRunning /\ endedBy = "auto" /\ phase = "idle")

C15_Witness ==
  /\ ~isRunning /\ endedBy = "auto" /\ phase = "idle"
  /\ stopAt = 5 * SecondsPerMinute
  /\ commits = 1
  /\ timers = {}

\* the cue effect has called playDingSound or generateAndPlaySpeech
CueInvoked == cue' # "none"

\* C16 as stated: each cue invocation does exactly one of three things,
\* chosen by the flags of that moment: muted, nothing is played or
\* requested; not muted and guided, speech is requested and no tone is
\* played; not muted and not guided, the tone is played and no speech is
\* requested.
C16_CueChosenByFlags ==
  [][CueInvoked =>
       IF isMuted' THEN cue' = "silent" /\ played' = "none"
       ELSE IF isGuided' THEN cue' = "speech" /\ played' = "none"
       ELSE cue' = "tone" /\ played' = "tone"]_vars

\* C16 amended: as stated, except that not muted and guided requests
\* speech only when the audio context was created at startup; without it
\* the invocation requests and plays nothing.
C16_CueChosenByFlagsAndContext ==
  [][CueInvoked =>
       IF isMuted' THEN cue' = "silent" /\ played' = "none"
       ELSE IF isGuided' /\ audioCtx'
            THEN cue' = "speech" /\ played' = "none" /\ pending' > 0
       ELSE IF isGuided'
            THEN cue' = "noContext" /\ played' = "none"
                 /\ pending' = pending
       ELSE cue' = "tone" /\ played' = "tone" /\ pending' = pending]_vars

C16_Witness ==
  /\ isRunning /\ phase = "exhale"
  /\ ~isMuted /\ isGuided /\ ~audioCtx
  /\ cue = "noContext" /\ played = "none" /\ pending = 0

\* a speech request has completed or failed in this step
SpeechSettled == app = "ready" /\ app' = "ready" /\ pending' < pending

\* C17: the completion or failure of a speech request, whenever it comes
\* (in the session that made it, after its stop, or in a later session),
\* leaves phase, elapsedTime, cycleCount, phaseCountdown, isRunning and
\* Stats as they are, and arms, cancels or delays no timer.
C17_SpeechIsFireAndForget ==
  [][SpeechSettled =>
       /\ UNCHANGED <<phase, elapsedTime, cycleCount, phaseCountdown,
                      isRunning, duration, stats, storage>>
       /\ UNCHANGED <<timers, phaseTimerRef, sessionTimerRef,
                      countdownTimerRef>>]_vars

\* speech requested by one session is played after that session was
\* stopped
C17_Witness ==
  /\ ~isRunning /\ endedBy = "manual" /\ stats.sessions = 1
  /\ played = "speech" /\ pending = 0

\* C18: whenever no session is running (initially, after any stop, until
\* the next start), phase is Idle and elapsedTime, duration and cycleCount
\* are 0.
C18_IdleWhenNotRunning ==
  ~isRunning =>
     /\ phase = "idle"
     /\ elapsedTime = 0
     /\ duration = 0
     /\ cycleCount = 0

\* the timers of one kind that are armed
Armed(kind) == {t \in timers : t.kind = kind}

\* C19: at most one phase interval, one elapsed-second interval and one
\* countdown interval are armed at any time, and each armed one is the one
\* whose handle its ref holds.
C19_OneTriggerPerKind ==
  /\ Cardinality(Armed("phase")) <= 1
  /\ Cardinality(Armed("session")) <= 1
  /\ Cardinality(Armed("countdown")) <= 1
  /\ \A t \in Armed("phase") : t.sid = phaseTimerRef
  /\ \A t \in Armed("session") : t.sid = sessionTimerRef
  /\ \A t \in Armed("countdown") : t.sid = countdownTimerRef

\* the elapsed-second interval's callback has run in this step
SessionTicks ==
  \E t \in timers : t.kind = "session" /\ t.due = 0 /\ t \notin timers'

\* C20: while a session is running 0 <= elapsedTime <= duration, so the
\* remaining time shown is never negative; elapsedTime changes only by +1
\* on an elapsed-second tick, or to 0 when a session starts or stops.
C20_ElapsedWithinDuration ==
  /\ [](isRunning => 0 <= elapsedTime /\ elapsedTime <= duration)
  /\ [][elapsedTime' # elapsedTime =>
          \/ SessionTicks /\ elapsedTime' = elapsedTime + 1
          \/ elapsedTime' = 0 /\ (SessionStarts \/ SessionStops)]_vars

\* the last second of a session of 5 minutes
C20_Witness ==
  /\ isRunning /\ duration = 5 * SecondsPerMinute
  /\ elapsedTime = duration - 1
  /\ advances = 75

\* no timer callback is due: the state stays on screen until time passes
Displayed == \A t \in timers : t.due > 0

\* C21: within a non-Idle phase of a running session the countdown shown
\* is back at the phase duration only once the phase has advanced: while
\* it shows the phase duration, the phase is in its first second (its
\* next advance is more than phase duration - 1 seconds away).
C21_CountdownAlignedWithPhase ==
  (isRunning /\ phase # "idle" /\ Displayed
     /\ phaseCountdown = PHASE_DURATION_S)
    => \A t \in Armed("phase") : t.due > PhasePeriod - SecondPeriod
====
